---------------------------- MODULE Spec2Model ----------------------------
(***************************************************************************)
(* Model of the ranking engine of Nusantara-Finder                         *)
(* (src/app/similarity_calculator.py): the SimilarityCalculator's stores,  *)
(* its three scorers and the search pipeline.                              *)
(*                                                                         *)
(* Strings are sequences of one-character strings, so that lower(),        *)
(* split() and len() are computed and not assumed.  Python floats are      *)
(* IEEE-754 binary64 numbers; the operations the scorers apply to them     *)
(* (sqrt, *, /) are computed bit-exactly on multi-limb naturals.           *)
(***************************************************************************)
EXTENDS Integers, Sequences, FiniteSets, TLC

(***************************************************************************)
(* Natural numbers of any size: little-endian sequences of limbs in        *)
(* 0..BASE-1 without leading zero limbs (<< >> is 0).  They carry the      *)
(* 53-bit significands of Python floats and the wider intermediate values  *)
(* of a correctly rounded operation.                                       *)
(***************************************************************************)
BASE == 16384

LIMBBITS == 14

RECURSIVE Pow2(_)
Pow2(k) == IF k = 0 THEN 1 ELSE 2 * Pow2(k - 1)

RECURSIVE BigTrim(_)
BigTrim(a) ==
  IF a = << >> THEN << >>
  ELSE IF a[Len(a)] = 0 THEN BigTrim(SubSeq(a, 1, Len(a) - 1)) ELSE a

RECURSIVE BigFromInt(_)
BigFromInt(n) == IF n = 0 THEN << >> ELSE <<n % BASE>> \o BigFromInt(n \div BASE)

Limb(a, i) == IF i <= Len(a) THEN a[i] ELSE 0

RECURSIVE BigAddC(_, _, _, _)
BigAddC(a, b, i, carry) ==
  IF i > Len(a) /\ i > Len(b)
  THEN IF carry = 0 THEN << >> ELSE <<carry>>
  ELSE LET s == Limb(a, i) + Limb(b, i) + carry
       IN  <<s % BASE>> \o BigAddC(a, b, i + 1, s \div BASE)

BigAdd(a, b) == BigAddC(a, b, 1, 0)

\* a - b for a >= b
RECURSIVE BigSubC(_, _, _, _)
BigSubC(a, b, i, borrow) ==
  IF i > Len(a) THEN << >>
  ELSE LET s == Limb(a, i) - Limb(b, i) - borrow
       IN  IF s < 0 THEN <<s + BASE>> \o BigSubC(a, b, i + 1, 1)
                    ELSE <<s>> \o BigSubC(a, b, i + 1, 0)

BigSub(a, b) == BigTrim(BigSubC(a, b, 1, 0))

\* -1, 0, 1 as a < b, a = b, a > b
RECURSIVE BigCmpFrom(_, _, _)
BigCmpFrom(a, b, i) ==
  IF i = 0 THEN 0
  ELSE IF a[i] < b[i] THEN -1
  ELSE IF a[i] > b[i] THEN 1
  ELSE BigCmpFrom(a, b, i - 1)

BigCmp(a, b) ==
  IF Len(a) < Len(b) THEN -1
  ELSE IF Len(a) > Len(b) THEN 1
  ELSE BigCmpFrom(a, b, Len(a))

\* a * k for 0 <= k < BASE * 4
RECURSIVE BigMulSmallC(_, _, _, _)
BigMulSmallC(a, k, i, carry) ==
  IF i > Len(a) THEN BigFromInt(carry)
  ELSE LET s == a[i] * k + carry
       IN  <<s % BASE>> \o BigMulSmallC(a, k, i + 1, s \div BASE)

BigMulSmall(a, k) == BigTrim(BigMulSmallC(a, k, 1, 0))

BigShiftLimbs(a, n) ==
  IF a = << >> THEN << >> ELSE [i \in 1..n |-> 0] \o a

RECURSIVE BigMulFrom(_, _, _)
BigMulFrom(a, b, j) ==
  IF j > Len(b) THEN << >>
  ELSE BigAdd(BigShiftLimbs(BigMulSmall(a, b[j]), j - 1), BigMulFrom(a, b, j + 1))

BigMul(a, b) == BigMulFrom(a, b, 1)

\* floor(a / k) for 1 <= k < BASE, from the top limb down
RECURSIVE BigDivSmallFrom(_, _, _, _)
BigDivSmallFrom(a, k, i, rem) ==
  IF i = 0 THEN << >>
  ELSE LET cur == rem * BASE + a[i]
       IN  BigDivSmallFrom(a, k, i - 1, cur % k) \o <<cur \div k>>

BigDivSmall(a, k) == BigTrim(BigDivSmallFrom(a, k, Len(a), 0))

BigShl(a, bits) ==
  BigShiftLimbs(BigMulSmall(a, Pow2(bits % LIMBBITS)), bits \div LIMBBITS)

BigShr(a, bits) ==
  LET n == bits \div LIMBBITS
  IN  IF n >= Len(a) THEN << >>
      ELSE BigDivSmall(SubSeq(a, n + 1, Len(a)), Pow2(bits % LIMBBITS))

RECURSIVE IntBitLen(_)
IntBitLen(n) == IF n = 0 THEN 0 ELSE 1 + IntBitLen(n \div 2)

BigBitLen(a) ==
  IF a = << >> THEN 0 ELSE (Len(a) - 1) * LIMBBITS + IntBitLen(a[Len(a)])

BigIsOdd(a) == a # << >> /\ a[1] % 2 = 1


(***************************************************************************)
(* Python floats (IEEE-754 binary64, round to nearest, ties to even).  A   *)
(* float is [sg, m, ex] with value sg * m * 2^ex, where sg is -1, 0 or 1   *)
(* and m is a natural of exactly MANTBITS bits (<< >> for 0.0).  The       *)
(* values the scorers produce are far from the subnormal and overflow      *)
(* ranges, so the exponent is unbounded here.                              *)
(***************************************************************************)
MANTBITS == 53

FZero == [sg |-> 0, m |-> << >>, ex |-> 0]

\* The float nearest to sg * (n + f) * 2^e, where 0 <= f < 1 and sticky says f > 0.
\* n has more than MANTBITS bits whenever sticky holds.
RoundNearest(sg, n, sticky, e) ==
  LET len == BigBitLen(n)
  IN  IF n = << >> THEN FZero
      ELSE IF len <= MANTBITS
      THEN [sg |-> sg, m |-> BigShl(n, MANTBITS - len), ex |-> e - (MANTBITS - len)]
      ELSE LET shift == len - MANTBITS
               q     == BigShr(n, shift)
               r     == BigSub(n, BigShl(q, shift))
               half  == BigShl(<<1>>, shift - 1)
               c     == BigCmp(r, half)
               up    == c > 0 \/ (c = 0 /\ (sticky \/ BigIsOdd(q)))
               q1    == IF up THEN BigAdd(q, <<1>>) ELSE q
           IN  IF BigBitLen(q1) > MANTBITS
               THEN [sg |-> sg, m |-> BigShr(q1, 1), ex |-> e + shift + 1]
               ELSE [sg |-> sg, m |-> q1, ex |-> e + shift]

Sign(n) == IF n < 0 THEN -1 ELSE IF n > 0 THEN 1 ELSE 0

Abs(n) == IF n < 0 THEN -n ELSE n

\* float(n) for a Python int n (exact below 2^53)
FFromInt(n) == RoundNearest(Sign(n), BigFromInt(Abs(n)), FALSE, 0)

\* The j-th base-4 digit of a, j = 0 for the lowest
Digit4(a, j) == (Limb(a, j \div 7 + 1) \div Pow2(2 * (j % 7))) % 4

\* Digit-by-digit integer square root of s from base-4 digit j down:
\* <<root, remainder>> with root^2 + remainder = s.
RECURSIVE ISqrtFrom(_, _, _, _)
ISqrtFrom(s, j, root, rem) ==
  IF j < 0 THEN <<root, rem>>
  ELSE LET r4    == BigAdd(BigMulSmall(rem, 4), BigFromInt(Digit4(s, j)))
           trial == BigAdd(BigMulSmall(root, 4), <<1>>)
       IN  IF BigCmp(r4, trial) >= 0
           THEN ISqrtFrom(s, j - 1, BigAdd(BigMulSmall(root, 2), <<1>>), BigSub(r4, trial))
           ELSE ISqrtFrom(s, j - 1, BigMulSmall(root, 2), r4)

\* math.sqrt(n) for a Python int n >= 0: the root of n * 4^t to MANTBITS + 1
\* bits, then rounded.
FSqrtInt(n) ==
  IF n = 0 THEN FZero
  ELSE LET t  == (2 * MANTBITS + 2 - IntBitLen(n)) \div 2
           s  == BigShl(BigFromInt(n), 2 * t)
           rr == ISqrtFrom(s, (BigBitLen(s) - 1) \div 2, << >>, << >>)
       IN  RoundNearest(1, rr[1], rr[2] # << >>, -t)

\* x * y
FMul(x, y) ==
  IF x.sg = 0 \/ y.sg = 0 THEN FZero
  ELSE RoundNearest(x.sg * y.sg, BigMul(x.m, y.m), FALSE, x.ex + y.ex)

\* One step of long division by d: qr = <<quotient so far, remainder>>.
DivStep(qr, d) ==
  LET r2 == BigMulSmall(qr[2], 2)
  IN  IF BigCmp(r2, d) >= 0
      THEN <<BigAdd(BigMulSmall(qr[1], 2), <<1>>), BigSub(r2, d)>>
      ELSE <<BigMulSmall(qr[1], 2), r2>>

\* k more quotient bits; once the remainder is 0 the remaining bits are 0.
RECURSIVE DivBits(_, _, _)
DivBits(qr, d, k) ==
  IF k = 0 THEN qr
  ELSE IF qr[2] = << >> THEN <<BigShl(qr[1], k), << >>>>
  ELSE DivBits(DivStep(qr, d), d, k - 1)

\* x / y for y # 0.0 (Python raises ZeroDivisionError on y = 0.0)
FDiv(x, y) ==
  IF x.sg = 0 THEN FZero
  ELSE LET first == BigCmp(x.m, y.m) >= 0
           qr    == DivBits(IF first THEN <<<<1>>, BigSub(x.m, y.m)>>
                                     ELSE <<<< >>, x.m>>, y.m, MANTBITS + 2)
       IN  RoundNearest(x.sg * y.sg, qr[1], qr[2] # << >>, x.ex - y.ex - (MANTBITS + 2))

\* -1, 0, 1 as x < y, x = y, x > y
FCmp(x, y) ==
  IF x.sg # y.sg THEN (IF x.sg < y.sg THEN -1 ELSE 1)
  ELSE IF x.sg = 0 THEN 0
  ELSE LET c == IF x.ex # y.ex THEN (IF x.ex < y.ex THEN -1 ELSE 1)
                ELSE BigCmp(x.m, y.m)
       IN  x.sg * c

FOne == FFromInt(1)


(***************************************************************************)
(* Similarity values.  A similarity is a Python float, carried in one of   *)
(* two forms:                                                              *)
(*   [k |-> "q", n, d]  the float nearest to the fraction n / d (the       *)
(*                      result of int / int, or of a quotient of two       *)
(*                      fixed-point scores), n and d coprime, d > 0;       *)
(*   [k |-> "f", f]     an explicit float.                                 *)
(* Two fractions of integers below 2^26 that differ are more than one      *)
(* rounding step apart, so floats in the first form are compared on their  *)
(* fractions.                                                              *)
(***************************************************************************)
RECURSIVE Gcd(_, _)
Gcd(a, b) == IF b = 0 THEN a ELSE Gcd(b, a % b)

Q(n, d) ==
  LET g == Gcd(Abs(n), d)
  IN  [k |-> "q", n |-> n \div g, d |-> d \div g]

F(x) == [k |-> "f", f |-> x]

Zero == Q(0, 1)

One == Q(1, 1)

\* min_similarity values: 0.0, 0.5, 1.0 and the front end's 0.01 (app.py)
Thresholds == {Q(0, 1), Q(1, 100), Q(1, 2), Q(1, 1)}

ThresholdFloats == [t \in Thresholds |-> FDiv(FFromInt(t.n), FFromInt(t.d))]

\* The explicit float of a similarity
ToFloat(x) ==
  IF x.k = "f" THEN x.f
  ELSE IF x \in Thresholds THEN ThresholdFloats[x]
  ELSE FDiv(FFromInt(x.n), FFromInt(x.d))

\* -1, 0, 1 as x < y, x = y, x > y (the floats' order)
SimCmp(x, y) ==
  IF x.k = "q" /\ y.k = "q" THEN Sign(x.n * y.d - y.n * x.d)
  ELSE FCmp(ToFloat(x), ToFloat(y))

SimGe(x, y) == SimCmp(x, y) >= 0

(***************************************************************************)
(* Strings: sequences of one-character strings.                            *)
(***************************************************************************)
UpperCase == <<"A", "B", "C", "D", "E", "F", "G", "H", "I", "J", "K", "L", "M",
               "N", "O", "P", "Q", "R", "S", "T", "U", "V", "W", "X", "Y", "Z">>

LowerCase == <<"a", "b", "c", "d", "e", "f", "g", "h", "i", "j", "k", "l", "m",
               "n", "o", "p", "q", "r", "s", "t", "u", "v", "w", "x", "y", "z">>

LowerChar(c) ==
  IF \E i \in DOMAIN UpperCase : UpperCase[i] = c
  THEN LowerCase[CHOOSE i \in DOMAIN UpperCase : UpperCase[i] = c]
  ELSE c

\* str.lower()
Lower(s) == [i \in DOMAIN s |-> LowerChar(s[i])]

IsSpace(c) == c \in {" ", "\t", "\n"}

\* str.split(): the maximal runs of non-whitespace characters, in order.
\* cur is the run being read.
RECURSIVE SplitFrom(_, _, _)
SplitFrom(s, i, cur) ==
  IF i > Len(s) THEN (IF cur = << >> THEN << >> ELSE <<cur>>)
  ELSE IF IsSpace(s[i])
       THEN (IF cur = << >> THEN << >> ELSE <<cur>>) \o SplitFrom(s, i + 1, << >>)
       ELSE SplitFrom(s, i + 1, Append(cur, s[i]))

Split(s) == SplitFrom(s, 1, << >>)

LongEnough(w) == Len(w) > 1

\* SimilarityCalculator.preprocess_query
preprocess_query(query) == SelectSeq(Split(Lower(query)), LongEnough)

(***************************************************************************)
(* Term-frequency tables are Python dicts {word: frequency}: functions     *)
(* from a finite set of words to integers.                                 *)
(***************************************************************************)
Range(s) == {s[i] : i \in DOMAIN s}

RECURSIVE SumOver(_, _)
SumOver(f, S) ==
  IF S = {} THEN 0
  ELSE LET x == CHOOSE y \in S : TRUE
       IN  f[x] + SumOver(f, S \ {x})

\* Counter(query_words)
Counter(words) ==
  [w \in Range(words) |-> Cardinality({i \in DOMAIN words : words[i] = w})]

\* A faulty Jaccard that counts repeated query tokens instead of distinct ones
JaccardOnTokenList(query_words, doc_words_freq) ==
  LET doc_set      == DOMAIN doc_words_freq
      intersection == Cardinality({i \in DOMAIN query_words : query_words[i] \in doc_set})
      union        == Len(query_words) + Cardinality(doc_set) - intersection
  IN  IF union = 0 THEN Zero ELSE Q(intersection, union)

\* SimilarityCalculator.calculate_jaccard
calculate_jaccard(query_words, doc_words_freq) ==
  LET query_set    == Range(query_words)
      doc_set      == DOMAIN doc_words_freq
      intersection == Cardinality(query_set \cap doc_set)
      union        == Cardinality(query_set \cup doc_set)
  IN  IF union = 0 THEN Zero ELSE Q(intersection, union)

DotProduct(query_freq, doc_words_freq) ==
  LET both == DOMAIN query_freq \cap DOMAIN doc_words_freq
  IN  SumOver([w \in both |-> query_freq[w] * doc_words_freq[w]], both)

SumSquares(freq) == SumOver([w \in DOMAIN freq |-> freq[w] * freq[w]], DOMAIN freq)

\* dot_product / (query_magnitude * doc_magnitude) for the integers under the roots
CosineQuotient(dot_product, query_sq, doc_sq) ==
  FDiv(FFromInt(dot_product), FMul(FSqrtInt(query_sq), FSqrtInt(doc_sq)))


(***************************************************************************)
(* The inputs the specifications draw from.                                *)
(***************************************************************************)
MaxQueryWords == 2

MaxDocLen == 2

MaxDocs == 2

Str_aa == <<"a", "a">>

Str_ab == <<"a", "b">>

Str_bb == <<"b", "b">>

\* The whitespace-separated pieces a raw query is made of: a plain word, a
\* word with an upper-case letter, and a one-letter word.
RawWords == {Str_aa, <<"A", "b">>, <<"b">>}

DocTerms == {Str_aa, Str_ab}

RECURSIVE SeqsUpTo(_, _)
SeqsUpTo(S, n) ==
  IF n = 0 THEN {<< >>}
  ELSE LET shorter == SeqsUpTo(S, n - 1)
       IN  shorter \cup {Append(q, x) : q \in {r \in shorter : Len(r) = n - 1}, x \in S}

RECURSIVE Join(_)
Join(ws) ==
  IF ws = << >> THEN << >>
  ELSE IF Len(ws) = 1 THEN ws[1]
  ELSE ws[1] \o <<" ">> \o Join(Tail(ws))

\* Raw query strings: up to MaxQueryWords raw words joined by single blanks,
\* a whitespace-only string and a padded query.
Queries ==
  {Join(ws) : ws \in SeqsUpTo(RawWords, MaxQueryWords)}
    \cup {<<" ", "\t">>, <<" ">> \o Str_aa \o <<" ", " ">> \o Str_ab \o <<"\n">>}

\* The token sequences preprocess_query can return for them, and the other
\* sequences over the document terms a caller of a scorer can pass.
TokenSeqs ==
  {preprocess_query(q) : q \in Queries} \cup SeqsUpTo(DocTerms \cup {Str_bb}, MaxQueryWords)

\* Term-frequency tables with counts >= 1 and at most n occurrences in all
TablesOver(terms, n) ==
  UNION {{t \in [D -> 1..n] : SumOver(t, D) <= n} : D \in SUBSET terms}

Tables == TablesOver(DocTerms, MaxDocLen)

\* The arguments direct calls of the two scorers draw from
MaxScorerTokens == 3

MaxScorerCount == 3

ScorerTerms == {Str_aa, Str_ab, Str_bb}

ScorerTokenSeqs == TokenSeqs \cup SeqsUpTo(ScorerTerms, MaxScorerTokens)

ScorerTables == TablesOver(ScorerTerms, MaxScorerCount)

\* Tables a store is not supposed to hold: counts of -1 and 0 next to 1
BadTables == UNION {[D -> {-1, 0, 1}] : D \in SUBSET DocTerms}

BadStoreQueries == {Str_aa, Join(<<Str_aa, Str_ab>>)}


(***************************************************************************)
(* The unit-test corpus (test_similarity.py, setUp).                       *)
(***************************************************************************)
Str_wisata == <<"w", "i", "s", "a", "t", "a">>

Str_pantai == <<"p", "a", "n", "t", "a", "i">>

Str_bali == <<"b", "a", "l", "i">>

Str_indah == <<"i", "n", "d", "a", "h">>

Str_gunung == <<"g", "u", "n", "u", "n", "g">>

Str_bromo == <<"b", "r", "o", "m", "o">>

Str_kuliner == <<"k", "u", "l", "i", "n", "e", "r">>

Str_makanan == <<"m", "a", "k", "a", "n", "a", "n">>

Str_indonesia == <<"i", "n", "d", "o", "n", "e", "s", "i", "a">>

Str_enak == <<"e", "n", "a", "k">>

Str_sunset == <<"s", "u", "n", "s", "e", "t">>

Str_museum == <<"m", "u", "s", "e", "u", "m">>

Str_sejarah == <<"s", "e", "j", "a", "r", "a", "h">>

Str_jakarta == <<"j", "a", "k", "a", "r", "t", "a">>

Str_nasional == <<"n", "a", "s", "i", "o", "n", "a", "l">>

Str_Wisata == <<"W", "i", "s", "a", "t", "a">>

Str_Kuliner == <<"K", "u", "l", "i", "n", "e", "r">>

Str_Sejarah == <<"S", "e", "j", "a", "r", "a", "h">>

Doc(id, tf) == [id |-> id, tf |-> tf]

TestIndex ==
  << Doc(1, Str_wisata :> 3 @@ Str_pantai :> 2 @@ Str_bali :> 1 @@ Str_indah :> 1),
     Doc(2, Str_wisata :> 2 @@ Str_gunung :> 3 @@ Str_bromo :> 2 @@ Str_indah :> 1),
     Doc(3, Str_kuliner :> 2 @@ Str_makanan :> 3 @@ Str_indonesia :> 1 @@ Str_enak :> 2),
     Doc(4, Str_pantai :> 2 @@ Str_bali :> 3 @@ Str_sunset :> 1 @@ Str_indah :> 2),
     Doc(5, Str_museum :> 2 @@ Str_sejarah :> 3 @@ Str_jakarta :> 1 @@ Str_nasional :> 1) >>

Meta(category, title, date, content) ==
  [category |-> category, title |-> title, date |-> date,
   image_url |-> "", url |-> "", content |-> content]

TestData ==
  1 :> Meta(Str_Wisata, "Pantai Bali", "2024-01-01", "Pantai indah di Bali") @@
  2 :> Meta(Str_Wisata, "Gunung Bromo", "2024-01-02", "Gunung yang indah") @@
  3 :> Meta(Str_Kuliner, "Makanan Indonesia", "2024-01-03", "Kuliner enak") @@
  4 :> Meta(Str_Wisata, "Pantai Bali Sunset", "2024-01-04", "Sunset di Bali") @@
  5 :> Meta(Str_Sejarah, "Museum Nasional", "2024-01-05", "Museum sejarah")

\* The queries of the unit tests and of the specification's scenarios
TestQueries ==
  {Join(ws) : ws \in {<<Str_pantai, Str_bali>>, <<Str_pantai, Str_indah>>, <<Str_wisata>>,
                      <<Str_pantai>>, <<Str_pantai, Str_bali, Str_indah>>,
                      <<Str_museum, Str_sejarah>>,
                      <<Str_wisata, Str_pantai, Str_bali, Str_indah>>}}

(***************************************************************************)
(* Cosine similarity.  The floats the search pipeline computes for the     *)
(* inputs above are computed once and looked up.                           *)
(***************************************************************************)
CosineArgsOf(words, table) ==
  <<DotProduct(Counter(words), table), SumSquares(Counter(words)), SumSquares(table)>>

CosineArgs ==
  {CosineArgsOf(preprocess_query(q), t) : q \in Queries, t \in Tables}
    \cup {CosineArgsOf(preprocess_query(q), TestIndex[i].tf) :
            q \in Queries \cup TestQueries, i \in DOMAIN TestIndex}
    \cup {CosineArgsOf(w, t) : w \in ScorerTokenSeqs, t \in ScorerTables}
    \cup {CosineArgsOf(preprocess_query(q), t) : q \in BadStoreQueries, t \in BadTables}

CosineCache ==
  [a \in {b \in CosineArgs : b[2] > 0 /\ b[3] > 0} |-> CosineQuotient(a[1], a[2], a[3])]

\* SimilarityCalculator.calculate_cosine; the magnitudes are the roots of
\* query_sq and doc_sq, and a root is 0.0 exactly when its argument is 0.
calculate_cosine(query_words, doc_words_freq) ==
  LET query_freq  == Counter(query_words)
      dot_product == DotProduct(query_freq, doc_words_freq)
      query_sq    == SumSquares(query_freq)
      doc_sq      == SumSquares(doc_words_freq)
      a           == <<dot_product, query_sq, doc_sq>>
  IN  IF query_sq = 0 \/ doc_sq = 0 THEN F(FZero)
      ELSE IF a \in DOMAIN CosineCache THEN F(CosineCache[a])
      ELSE F(CosineQuotient(dot_product, query_sq, doc_sq))


(***************************************************************************)
(* rank_bm25.BM25Okapi, the library the engine delegates raw scores to.    *)
(* Its floats are carried as fixed-point integers in units of 1/SCALE; the *)
(* rounding of each step is floor.                                         *)
(***************************************************************************)
SCALE == 1000

\* math.log(k + 0.5) in units of 1/SCALE, for k = 0, 1, ...
LogHalfTable == <<-693, 405, 916, 1253, 1504, 1705, 1872, 2015, 2140, 2251>>

LogHalf(k) == LogHalfTable[k + 1]

\* k1 = K1N / K1D = 1.5, b = BN / BD = 0.75, epsilon = EPSN / EPSD = 0.25
K1N == 3

K1D == 2

BN == 3

BD == 4

EPSN == 1

EPSD == 4

\* BM25Okapi(corpus) raises ZeroDivisionError for a corpus without documents
\* (avgdl = num_doc / corpus_size) and for one without any token
\* (average_idf = idf_sum / len(idf)).
BM25Raises(corpus) ==
  Len(corpus) = 0 \/ \A i \in DOMAIN corpus : DOMAIN corpus[i] = {}

\* BM25Okapi(corpus): corpus[i] is the bag of tokens of document i
BM25Okapi(corpus) ==
  LET words       == UNION {DOMAIN corpus[i] : i \in DOMAIN corpus}
      corpus_size == Len(corpus)
      doc_len     == [i \in DOMAIN corpus |-> SumOver(corpus[i], DOMAIN corpus[i])]
      nd          == [w \in words |->
                        Cardinality({i \in DOMAIN corpus : w \in DOMAIN corpus[i]})]
      idf0        == [w \in words |-> LogHalf(corpus_size - nd[w]) - LogHalf(nd[w])]
      average_idf == SumOver(idf0, words) \div Cardinality(words)
      eps         == (EPSN * average_idf) \div EPSD
  IN  [corpus_size |-> corpus_size,
       doc_freqs   |-> corpus,
       doc_len     |-> doc_len,
       num_doc     |-> SumOver(doc_len, DOMAIN doc_len),
       idf         |-> [w \in words |-> IF idf0[w] < 0 THEN eps ELSE idf0[w]]]

\* One query token's contribution to document i's score:
\* idf * f * (k1 + 1) / (f + k1 * (1 - b + b * doc_len / avgdl)), with
\* avgdl = num_doc / corpus_size and both sides multiplied by K1D * BD * num_doc.
BM25Term(model, q, i) ==
  LET f   == IF q \in DOMAIN model.doc_freqs[i] THEN model.doc_freqs[i][q] ELSE 0
      idf == IF q \in DOMAIN model.idf THEN model.idf[q] ELSE 0
      num == f * (K1N + K1D) * BD * model.num_doc
      den == f * K1D * BD * model.num_doc
               + K1N * ((BD - BN) * model.num_doc
                          + BN * model.doc_len[i] * model.corpus_size)
  IN  (idf * num) \div den

RECURSIVE SumSeq(_)
SumSeq(s) == IF s = << >> THEN 0 ELSE Head(s) + SumSeq(Tail(s))

\* BM25Okapi.get_scores(query): one raw score per corpus position
get_scores(model, query) ==
  [i \in 1..model.corpus_size |->
     SumSeq([j \in DOMAIN query |-> BM25Term(model, query[j], i)])]

(***************************************************************************)
(* SimilarityCalculator                                                    *)
(***************************************************************************)
\* [word] * freq: the list is empty for freq <= 0
Repeat(freq) == IF freq > 0 THEN freq ELSE 0

\* The tokens _build_bm25 makes of one term-frequency table, as a bag
DocTokens(freq_map) ==
  [w \in {v \in DOMAIN freq_map : Repeat(freq_map[v]) > 0} |-> Repeat(freq_map[w])]

\* A faulty position map: the identifiers in ascending order instead of in
\* the order the corpus was built in
RECURSIVE AscendingIds(_)
AscendingIds(ids) ==
  IF ids = {} THEN << >>
  ELSE LET least == CHOOSE x \in ids : \A y \in ids : x <= y
       IN  <<least>> \o AscendingIds(ids \ {least})

BuildIdMapAscending(index) == AscendingIds({index[i].id : i \in DOMAIN index})

\* _build_bm25: the corpus and bm25_id_map, appended to in one pass
BuildCorpus(index) == [i \in DOMAIN index |-> DocTokens(index[i].tf)]

BuildIdMap(index) == [i \in DOMAIN index |-> index[i].id]

Max(S) == CHOOSE x \in S : \A y \in S : y <= x

Min(S) == CHOOSE x \in S : \A y \in S : x <= y

\* The normalisation of calculate_bm25: {bm25_id_map[i]: ...}.  A dict keeps the
\* last value written for a key.
Normalize(raw_scores, id_map) ==
  LET n           == Len(raw_scores)
      max_score   == IF n > 0 THEN Max(Range(raw_scores)) ELSE 1
      min_score   == IF n > 0 THEN Min(Range(raw_scores)) ELSE 0
      score_range == max_score - min_score
      last(d)     == Max({i \in 1..n : id_map[i] = d})
  IN  [d \in {id_map[i] : i \in 1..n} |->
         IF score_range = 0 THEN Zero
         ELSE Q(raw_scores[last(d)] - min_score, score_range)]

\* SimilarityCalculator.calculate_bm25
calculate_bm25(model, id_map, query_words) ==
  Normalize(get_scores(model, query_words), id_map)


(***************************************************************************)
(* The state: one SimilarityCalculator under construction or constructed,  *)
(* the last call made on it and what that call returned.                   *)
(***************************************************************************)
VARIABLES
  phase,           \* "new": __init__ has stored its arguments; "ready": it returned;
                   \* "failed": it raised and there is no instance
  inverted_index,  \* the dict {doc_id: {word: freq}}, in iteration order
  combined_data,   \* the dict {doc_id: {field: value}}
  bm25_model,      \* self.bm25_model
  bm25_id_map,     \* self.bm25_id_map
  call,            \* the last call: its name and arguments
  ret              \* its return value

vars == <<phase, inverted_index, combined_data, bm25_model, bm25_id_map, call, ret>>

\* An optional string argument: None or a string
None == [some |-> FALSE, s |-> << >>]

Some(str) == [some |-> TRUE, s |-> str]

\* Python's truth value of an optional string: None and "" are false
Truthy(opt) == opt.some /\ opt.s # << >>

\* dict.get(key, default)
Get(d, key, default) == IF key \in DOMAIN d THEN d[key] ELSE default

Str_UnknownCategory ==
  <<"U", "n", "k", "n", "o", "w", "n", " ", "C", "a", "t", "e", "g", "o", "r", "y">>

\* A faulty filter that lets every document through
CategoryIgnored(doc_data, target_category) == TRUE

\* The category filter of search, for one document's metadata
CategoryPasses(doc_data, target_category) ==
  Truthy(target_category) =>
    Lower(Get(doc_data, "category", << >>)) = Lower(target_category.s)

\* A faulty dispatch that scores an unknown selector with the default algorithm
SimilarityDefaultJaccard(algorithm, query_words, doc_id, doc_words_freq, bm25_scores) ==
  IF algorithm = "cosine" THEN calculate_cosine(query_words, doc_words_freq)
  ELSE IF algorithm = "bm25" THEN Get(bm25_scores, doc_id, Zero)
  ELSE calculate_jaccard(query_words, doc_words_freq)

\* The similarity search computes for one document
Similarity(algorithm, query_words, doc_id, doc_words_freq, bm25_scores) ==
  IF algorithm = "jaccard" THEN calculate_jaccard(query_words, doc_words_freq)
  ELSE IF algorithm = "cosine" THEN calculate_cosine(query_words, doc_words_freq)
  ELSE IF algorithm = "bm25" THEN Get(bm25_scores, doc_id, Zero)
  ELSE Zero

\* Faulty threshold tests: a strict comparison, and none at all
PassesStrictly(similarity, min_similarity) == SimCmp(similarity, min_similarity) > 0

PassesAlways(similarity, min_similarity) == TRUE

\* The threshold test of search
Passes(similarity, min_similarity) == SimGe(similarity, min_similarity)

\* A faulty result that fills every missing field with the empty string
ResultWithEmptyDefaults(doc_id, doc_data, similarity) ==
  [content_id |-> doc_id,
   title      |-> Get(doc_data, "title", ""),
   similarity |-> similarity,
   category   |-> Get(doc_data, "category", << >>),
   date       |-> Get(doc_data, "date", ""),
   image_url  |-> Get(doc_data, "image_url", ""),
   url        |-> Get(doc_data, "url", ""),
   content    |-> Get(doc_data, "content", "")]

\* The dict search appends for a document that passed
Result(doc_id, doc_data, similarity) ==
  [content_id |-> doc_id,
   title      |-> Get(doc_data, "title", "Unknown Title"),
   similarity |-> similarity,
   category   |-> Get(doc_data, "category", Str_UnknownCategory),
   date       |-> Get(doc_data, "date", "Unknown Date"),
   image_url  |-> Get(doc_data, "image_url", ""),
   url        |-> Get(doc_data, "url", ""),
   content    |-> Get(doc_data, "content", "")]

\* A faulty sort that leaves the list in scan order
SortSkipped(results) == results

\* r placed behind every element of the sorted list that does not rank below it
InsertDesc(sorted, r) ==
  LET before == Cardinality({i \in DOMAIN sorted :
                               SimCmp(sorted[i].similarity, r.similarity) >= 0})
  IN  SubSeq(sorted, 1, before) \o <<r>> \o SubSeq(sorted, before + 1, Len(sorted))

\* results.sort(key=similarity, reverse=True): stable, descending
RECURSIVE SortDesc(_)
SortDesc(results) ==
  IF results = << >> THEN << >>
  ELSE InsertDesc(SortDesc(SubSeq(results, 1, Len(results) - 1)), results[Len(results)])

\* The loop of search over inverted_index.items(), from position i on
RECURSIVE Scan(_, _, _, _, _, _)
Scan(i, query_words, algorithm, target_category, min_similarity, bm25_scores) ==
  IF i > Len(inverted_index) THEN << >>
  ELSE LET doc_id     == inverted_index[i].id
           doc_data   == Get(combined_data, doc_id, << >>)
           similarity == Similarity(algorithm, query_words, doc_id,
                                    inverted_index[i].tf, bm25_scores)
           rest       == Scan(i + 1, query_words, algorithm, target_category,
                              min_similarity, bm25_scores)
       IN  IF ~CategoryPasses(doc_data, target_category) THEN rest
           ELSE IF Passes(similarity, min_similarity)
                THEN <<Result(doc_id, doc_data, similarity)>> \o rest
                ELSE rest

\* A faulty search without the early return for an empty token sequence
searchWithoutEmptyCheck(query, algorithm, target_category, min_similarity) ==
  LET query_words == preprocess_query(query)
      bm25_scores == IF algorithm = "bm25"
                     THEN calculate_bm25(bm25_model, bm25_id_map, query_words)
                     ELSE << >>
  IN  SortDesc(Scan(1, query_words, algorithm, target_category,
                    min_similarity, bm25_scores))

\* SimilarityCalculator.search
search(query, algorithm, target_category, min_similarity) ==
  LET query_words == preprocess_query(query)
      bm25_scores == IF algorithm = "bm25"
                     THEN calculate_bm25(bm25_model, bm25_id_map, query_words)
                     ELSE << >>
  IN  IF query_words = << >> THEN << >>
      ELSE SortDesc(Scan(1, query_words, algorithm, target_category,
                         min_similarity, bm25_scores))

(***************************************************************************)
(* The search pipeline: an instance is constructed over a store and        *)
(* searched any number of times.                                           *)
(***************************************************************************)
Algorithms == {"jaccard", "cosine", "bm25", "tfidf"}

\* Category filters: none, the empty string, a stored category in another
\* case, and a category only the unit-test corpus holds
Filters == {None, Some(<< >>), Some(Str_wisata), Some(Str_Kuliner)}

DocMeta == Meta(Str_Wisata, "Title", "2024-01-01", "Content")

\* Stores of n documents with identifiers n, ..., 1 in iteration order
IndexesOf(n) ==
  {[i \in 1..n |-> Doc(n + 1 - i, ts[i])] : ts \in [1..n -> Tables]}

Indexes == UNION {IndexesOf(n) : n \in 0..MaxDocs} \cup {TestIndex}

\* Metadata for any subset of the store's documents
DataFor(index) ==
  IF index = TestIndex THEN {TestData}
  ELSE {[d \in D |-> DocMeta] : D \in SUBSET {index[i].id : i \in DOMAIN index}}

NoCall == [op |-> "none"]

NoModel == [corpus_size |-> 0]

Init ==
  /\ phase = "new"
  /\ inverted_index \in Indexes
  /\ combined_data \in DataFor(inverted_index)
  /\ bm25_model = NoModel
  /\ bm25_id_map = << >>
  /\ call = NoCall
  /\ ret = << >>

\* SimilarityCalculator.__init__, from _build_bm25 on
Construct ==
  /\ phase = "new"
  /\ bm25_id_map' = BuildIdMap(inverted_index)
  /\ IF BM25Raises(BuildCorpus(inverted_index))
     THEN phase' = "failed" /\ bm25_model' = NoModel
     ELSE phase' = "ready" /\ bm25_model' = BM25Okapi(BuildCorpus(inverted_index))
  /\ UNCHANGED <<inverted_index, combined_data, call, ret>>

\* A call of search on the idle instance
Search(query, algorithm, target_category, min_similarity) ==
  /\ phase = "ready"
  /\ call = NoCall
  /\ call' = [op |-> "search", query |-> query, algorithm |-> algorithm,
              target_category |-> target_category, min_similarity |-> min_similarity]
  /\ ret' = search(query, algorithm, target_category, min_similarity)
  /\ UNCHANGED <<phase, inverted_index, combined_data, bm25_model, bm25_id_map>>

\* The caller has used the returned list and drops it
Return ==
  /\ call # NoCall
  /\ call' = NoCall
  /\ ret' = << >>
  /\ UNCHANGED <<phase, inverted_index, combined_data, bm25_model, bm25_id_map>>

SearchQueries == IF inverted_index = TestIndex THEN Queries \cup TestQueries ELSE Queries

Next ==
  \/ Construct
  \/ Return
  \/ \E query \in SearchQueries, algorithm \in Algorithms,
        target_category \in Filters, min_similarity \in Thresholds :
       Search(query, algorithm, target_category, min_similarity)

Spec == Init /\ [][Next]_vars

(***************************************************************************)
(* Direct calls of the scorers on a constructed instance (as the unit      *)
(* tests make them).                                                       *)
(***************************************************************************)
InitScorer ==
  /\ phase = "new"
  /\ inverted_index = TestIndex
  /\ combined_data = TestData
  /\ bm25_model = NoModel
  /\ bm25_id_map = << >>
  /\ call = NoCall
  /\ ret = << >>

CallJaccard(query_words, doc_words_freq) ==
  /\ phase = "ready"
  /\ call = NoCall
  /\ call' = [op |-> "calculate_jaccard", query_words |-> query_words,
              doc_words_freq |-> doc_words_freq]
  /\ ret' = calculate_jaccard(query_words, doc_words_freq)
  /\ UNCHANGED <<phase, inverted_index, combined_data, bm25_model, bm25_id_map>>

CallCosine(query_words, doc_words_freq) ==
  /\ phase = "ready"
  /\ call = NoCall
  /\ call' = [op |-> "calculate_cosine", query_words |-> query_words,
              doc_words_freq |-> doc_words_freq]
  /\ ret' = calculate_cosine(query_words, doc_words_freq)
  /\ UNCHANGED <<phase, inverted_index, combined_data, bm25_model, bm25_id_map>>

NextScorer ==
  \/ Construct
  \/ Return
  \/ \E query_words \in ScorerTokenSeqs, doc_words_freq \in ScorerTables :
       CallJaccard(query_words, doc_words_freq)
  \/ \E query_words \in ScorerTokenSeqs, doc_words_freq \in ScorerTables :
       CallCosine(query_words, doc_words_freq)

SpecScorer == InitScorer /\ [][NextScorer]_vars

(***************************************************************************)
(* Direct calls of calculate_bm25 on instances over stores of up to        *)
(* MaxBM25Docs documents.                                                  *)
(***************************************************************************)
MaxBM25Docs == 3

BM25Indexes == UNION {IndexesOf(n) : n \in 1..MaxBM25Docs} \cup {TestIndex}

InitBM25 ==
  /\ phase = "new"
  /\ inverted_index \in BM25Indexes
  /\ combined_data = IF inverted_index = TestIndex THEN TestData
                     ELSE [d \in {inverted_index[i].id : i \in DOMAIN inverted_index}
                             |-> DocMeta]
  /\ bm25_model = NoModel
  /\ bm25_id_map = << >>
  /\ call = NoCall
  /\ ret = << >>

CallBM25(query_words) ==
  /\ phase = "ready"
  /\ call = NoCall
  /\ call' = [op |-> "calculate_bm25", query_words |-> query_words]
  /\ ret' = calculate_bm25(bm25_model, bm25_id_map, query_words)
  /\ UNCHANGED <<phase, inverted_index, combined_data, bm25_model, bm25_id_map>>

BM25QueryWords ==
  IF inverted_index = TestIndex
  THEN TokenSeqs \cup {preprocess_query(q) : q \in TestQueries}
  ELSE TokenSeqs

NextBM25 ==
  \/ Construct
  \/ Return
  \/ \E query_words \in BM25QueryWords : CallBM25(query_words)

SpecBM25 == InitBM25 /\ [][NextBM25]_vars

(***************************************************************************)
(* Construction over stores that hold non-positive counts, and searches    *)
(* of the instances it yields.                                             *)
(***************************************************************************)
MaxBadDocs == 2

BadIndexes ==
  UNION {{[i \in 1..n |-> Doc(n + 1 - i, ts[i])] : ts \in [1..n -> BadTables]} :
           n \in 0..MaxBadDocs}

InitBadStore ==
  /\ phase = "new"
  /\ inverted_index \in BadIndexes
  /\ combined_data = [d \in {inverted_index[i].id : i \in DOMAIN inverted_index}
                        |-> DocMeta]
  /\ bm25_model = NoModel
  /\ bm25_id_map = << >>
  /\ call = NoCall
  /\ ret = << >>

NextBadStore ==
  \/ Construct
  \/ Return
  \/ \E query \in BadStoreQueries, algorithm \in Algorithms :
       Search(query, algorithm, None, Zero)

SpecBadStore == InitBadStore /\ [][NextBadStore]_vars


(***************************************************************************)
(* Searches over stores whose documents have no metadata, or metadata      *)
(* with any subset of the six fields.                                      *)
(***************************************************************************)
MaxMetaDocs == 1

MetaFields == {"category", "title", "date", "image_url", "url", "content"}

\* A row as load_combined_data builds it, every field non-empty
FullMeta ==
  [category |-> Str_Wisata, title |-> "Title", date |-> "2024-01-01",
   image_url |-> "http://img/1.jpg", url |-> "http://news/1", content |-> "Content"]

\* The dicts holding some of the fields of the row
PartialMetas == {[f \in D |-> FullMeta[f]] : D \in SUBSET MetaFields}

MetaTables == {Str_aa :> 1, Str_aa :> 1 @@ Str_ab :> 2}

MetaIndexes ==
  UNION {{[i \in 1..n |-> Doc(n + 1 - i, ts[i])] : ts \in [1..n -> MetaTables]} :
           n \in 1..MaxMetaDocs}

\* Metadata stores: each document is absent or has one of the partial dicts
MetaDataFor(index) ==
  UNION {[D -> PartialMetas] : D \in SUBSET {index[i].id : i \in DOMAIN index}}

InitMeta ==
  /\ phase = "new"
  /\ inverted_index \in MetaIndexes
  /\ combined_data \in MetaDataFor(inverted_index)
  /\ bm25_model = NoModel
  /\ bm25_id_map = << >>
  /\ call = NoCall
  /\ ret = << >>

NextMeta ==
  \/ Construct
  \/ Return
  \/ \E algorithm \in Algorithms, target_category \in {None, Some(Str_wisata)} :
       Search(Str_aa, algorithm, target_category, Zero)

SpecMeta == InitMeta /\ [][NextMeta]_vars

(***************************************************************************)
(* Concurrent requests: app.py serves every request from the one           *)
(* similarity_calc, so several calls of search can be in progress at       *)
(* once.  A call's arguments and local variables (query_words,             *)
(* bm25_scores, the loop position, results) live in its own frame; here    *)
(* call[t] is the frame of the call thread t is running and ret[t] the     *)
(* list it returned.  A step is one of: the tokenisation with the early    *)
(* return, the BM25 precomputation, one loop iteration, the sort.          *)
(***************************************************************************)
MaxThreads == 2

Threads == 1..MaxThreads

IdleFrame ==
  [pc |-> "idle", query |-> << >>, algorithm |-> "", target_category |-> None,
   min_similarity |-> Zero, query_words |-> << >>, bm25_scores |-> << >>,
   i |-> 1, results |-> << >>]

\* A faulty engine that keeps the scratch variables in one place for all calls
SharedFrame(t) == call[1]

\* The frame the steps of thread t's call read their variables from
Frame(t) == call[t]

ConcIndex == <<Doc(2, Str_aa :> 1), Doc(1, Str_aa :> 1 @@ Str_ab :> 1)>>

ConcIndexes == {ConcIndex, TestIndex}

\* The calls the threads make: [query, algorithm, target_category, min_similarity]
ConcCalls ==
  {<<q, a, None, Zero>> :
     q \in IF inverted_index = TestIndex
           THEN {Join(<<Str_pantai, Str_bali>>)}
           ELSE {Str_aa, Join(<<Str_aa, Str_ab>>)},
     a \in {"jaccard", "cosine", "bm25"}}
    \cup {<<Str_aa, "jaccard", Some(Str_wisata), Q(1, 2)>>, <<<<"b">>, "bm25", None, Zero>>}

InitConc ==
  /\ phase = "new"
  /\ inverted_index \in ConcIndexes
  /\ combined_data = IF inverted_index = TestIndex THEN TestData ELSE 2 :> DocMeta
  /\ bm25_model = NoModel
  /\ bm25_id_map = << >>
  /\ call = [t \in Threads |-> IdleFrame]
  /\ ret = [t \in Threads |-> << >>]

\* Thread t enters search with its arguments
Begin(t, args) ==
  /\ phase = "ready"
  /\ call[t].pc = "idle"
  /\ call' = [call EXCEPT ![t] = [IdleFrame EXCEPT !.pc = "tokenize", !.query = args[1],
                                     !.algorithm = args[2], !.target_category = args[3],
                                     !.min_similarity = args[4]]]
  /\ UNCHANGED <<phase, inverted_index, combined_data, bm25_model, bm25_id_map, ret>>

\* query_words = self.preprocess_query(query); return [] when it is empty
Tokenize(t) ==
  /\ call[t].pc = "tokenize"
  /\ LET query_words == preprocess_query(Frame(t).query)
     IN  IF query_words = << >>
         THEN /\ call' = [call EXCEPT ![t].pc = "done"]
              /\ ret' = [ret EXCEPT ![t] = << >>]
         ELSE /\ call' = [call EXCEPT ![t].query_words = query_words,
                                      ![t].pc = IF Frame(t).algorithm = "bm25"
                                                THEN "bm25" ELSE "loop"]
              /\ UNCHANGED ret
  /\ UNCHANGED <<phase, inverted_index, combined_data, bm25_model, bm25_id_map>>

\* bm25_scores = self.calculate_bm25(query_words)
PrecomputeBM25(t) ==
  /\ call[t].pc = "bm25"
  /\ call' = [call EXCEPT ![t].bm25_scores =
                             calculate_bm25(bm25_model, bm25_id_map, Frame(t).query_words),
                          ![t].pc = "loop"]
  /\ UNCHANGED <<phase, inverted_index, combined_data, bm25_model, bm25_id_map, ret>>

\* One iteration of the loop over self.inverted_index.items()
LoopStep(t) ==
  /\ call[t].pc = "loop"
  /\ Frame(t).i <= Len(inverted_index)
  /\ LET fr         == Frame(t)
         doc_id     == inverted_index[fr.i].id
         doc_data   == Get(combined_data, doc_id, << >>)
         similarity == Similarity(fr.algorithm, fr.query_words, doc_id,
                                  inverted_index[fr.i].tf, fr.bm25_scores)
         results    == IF CategoryPasses(doc_data, fr.target_category)
                          /\ Passes(similarity, fr.min_similarity)
                       THEN Append(fr.results, Result(doc_id, doc_data, similarity))
                       ELSE fr.results
     IN  call' = [call EXCEPT ![t].results = results, ![t].i = fr.i + 1]
  /\ UNCHANGED <<phase, inverted_index, combined_data, bm25_model, bm25_id_map, ret>>

\* results.sort(...); return results
SortAndReturn(t) ==
  /\ call[t].pc = "loop"
  /\ Frame(t).i > Len(inverted_index)
  /\ call' = [call EXCEPT ![t].pc = "done"]
  /\ ret' = [ret EXCEPT ![t] = SortDesc(Frame(t).results)]
  /\ UNCHANGED <<phase, inverted_index, combined_data, bm25_model, bm25_id_map>>

\* The request handler has used the list; the thread serves the next request
Finish(t) ==
  /\ call[t].pc = "done"
  /\ call' = [call EXCEPT ![t] = IdleFrame]
  /\ ret' = [ret EXCEPT ![t] = << >>]
  /\ UNCHANGED <<phase, inverted_index, combined_data, bm25_model, bm25_id_map>>

NextConc ==
  \/ Construct
  \/ \E t \in Threads : \E args \in ConcCalls : Begin(t, args)
  \/ \E t \in Threads : Tokenize(t)
  \/ \E t \in Threads : PrecomputeBM25(t)
  \/ \E t \in Threads : LoopStep(t)
  \/ \E t \in Threads : SortAndReturn(t)
  \/ \E t \in Threads : Finish(t)

SpecConc == InitConc /\ [][NextConc]_vars

(***************************************************************************)
(* Properties of search, checked under Spec.                               *)
(***************************************************************************)
Searched == call.op = "search"

Tokens == preprocess_query(call.query)

ReturnedIds == {ret[i].content_id : i \in DOMAIN ret}

StoreIds == {inverted_index[i].id : i \in DOMAIN inverted_index}

\* The store's position of a document identifier
PositionOf(doc_id) == CHOOSE i \in DOMAIN inverted_index : inverted_index[i].id = doc_id

\* The category the metadata store holds for a document, "" when it holds none
StoredCategory(doc_id) == Get(Get(combined_data, doc_id, << >>), "category", << >>)

\* The similarity of a stored document under the call's selector and query
ComputedSimilarity(doc_id) ==
  LET words == Tokens
  IN  IF call.algorithm = "jaccard"
      THEN calculate_jaccard(words, inverted_index[PositionOf(doc_id)].tf)
      ELSE IF call.algorithm = "cosine"
      THEN calculate_cosine(words, inverted_index[PositionOf(doc_id)].tf)
      ELSE IF call.algorithm = "bm25"
      THEN calculate_bm25(bm25_model, bm25_id_map, words)[doc_id]
      ELSE Zero

\* A filter is applied when the argument is a non-empty string
FilterApplied == call.target_category.some /\ call.target_category.s # << >>

MatchesCategory(doc_id) == Lower(StoredCategory(doc_id)) = Lower(call.target_category.s)

\* The documents the call qualifies: they pass the applied filter and reach
\* the threshold
QualifyingIds ==
  {d \in StoreIds : /\ FilterApplied => MatchesCategory(d)
                    /\ SimGe(ComputedSimilarity(d), call.min_similarity)}

\* C1: for every store, query, selector in {jaccard, cosine, bm25}, filter and
\* threshold, the sequence search returns is in non-increasing order of
\* similarity: each result's similarity is >= its successor's.
C1_SortedDescending ==
  (Searched /\ call.algorithm \in {"jaccard", "cosine", "bm25"}) =>
    \A i \in 1..(Len(ret) - 1) : SimGe(ret[i].similarity, ret[i + 1].similarity)

\* A search returned two results of different similarity in the reverse of
\* their store order
C1_Witness ==
  /\ Searched
  /\ call.algorithm \in {"jaccard", "cosine", "bm25"}
  /\ \E i, j \in DOMAIN ret :
       /\ i < j
       /\ SimCmp(ret[i].similarity, ret[j].similarity) > 0
       /\ PositionOf(ret[i].content_id) > PositionOf(ret[j].content_id)

\* C2: for a non-empty token sequence, the identifiers search returns are
\* exactly the stored documents that pass the category filter (when one is
\* applied) and whose similarity reaches min_similarity, each exactly once;
\* "pantai bali" at min_similarity 0.5 under jaccard over the unit-test corpus
\* returns exactly documents 1 and 4.
C2_ExactlyTheQualifying ==
  (Searched /\ Tokens # << >>) =>
    /\ ReturnedIds = QualifyingIds
    /\ Len(ret) = Cardinality(ReturnedIds)
    /\ ( /\ inverted_index = TestIndex
         /\ call.query = Join(<<Str_pantai, Str_bali>>)
         /\ call.algorithm = "jaccard"
         /\ call.target_category = None
         /\ call.min_similarity = Q(1, 2) ) => ReturnedIds = {1, 4}

\* The scenario's search over the unit-test corpus returned its two documents
C2_Witness ==
  /\ Searched
  /\ inverted_index = TestIndex
  /\ call.query = Join(<<Str_pantai, Str_bali>>)
  /\ call.algorithm = "jaccard"
  /\ call.target_category = None
  /\ call.min_similarity = Q(1, 2)
  /\ Len(ret) = 2

\* C3: every result of search(query, algorithm, category, min_similarity = t)
\* carries the similarity computed for its document, and that similarity is
\* >= t, for every selector.
C3_AboveThreshold ==
  Searched =>
    \A i \in DOMAIN ret :
      /\ ret[i].content_id \in StoreIds
      /\ ret[i].similarity = ComputedSimilarity(ret[i].content_id)
      /\ SimGe(ret[i].similarity, call.min_similarity)

\* A search with a positive threshold returned a document and left out
\* another one only because its similarity is below the threshold
C3_Witness ==
  /\ Searched
  /\ SimCmp(call.min_similarity, Zero) > 0
  /\ ret # << >>
  /\ \E d \in StoreIds \ ReturnedIds :
       /\ FilterApplied => MatchesCategory(d)
       /\ ~SimGe(ComputedSimilarity(d), call.min_similarity)

\* C4 as stated: whenever a category filter string (any string, not None) is
\* supplied, every result's stored category equals it when both are
\* lowercased.
C4_AnyStringFilters ==
  (Searched /\ call.target_category.some) =>
    \A i \in DOMAIN ret : MatchesCategory(ret[i].content_id)

\* C4: whenever a non-empty category filter string is supplied, every
\* result's stored category ("" without metadata or category field) equals it
\* when both are lowercased; with None or the empty string no document is
\* left out for its category.
C4_NonEmptyFilters ==
  Searched =>
    /\ FilterApplied => \A i \in DOMAIN ret : MatchesCategory(ret[i].content_id)
    /\ (~FilterApplied /\ Tokens # << >>) =>
         \A d \in StoreIds :
           SimGe(ComputedSimilarity(d), call.min_similarity) => d \in ReturnedIds

\* A search with a non-empty filter returned a document and left out another
\* one that reaches the threshold but is of another category
C4_Witness ==
  /\ Searched
  /\ FilterApplied
  /\ ret # << >>
  /\ \E d \in StoreIds \ ReturnedIds :
       /\ SimGe(ComputedSimilarity(d), call.min_similarity)
       /\ ~MatchesCategory(d)

\* No two adjacent characters of the query are both non-whitespace: the query
\* is empty, whitespace-only or made of tokens of length <= 1
OnlyShortTokens(query) ==
  \A i \in 1..(Len(query) - 1) : IsSpace(query[i]) \/ IsSpace(query[i + 1])

\* C5: for every selector, filter and threshold, search returns the empty
\* sequence whenever the query tokenizes to the empty sequence, which is
\* exactly when the query is empty, whitespace-only or made only of tokens of
\* length <= 1.
C5_EmptyQueryEmptyResult ==
  Searched =>
    /\ OnlyShortTokens(call.query) <=> Tokens = << >>
    /\ Tokens = << >> => ret = << >>

\* A search for one-letter words under bm25 with threshold 0.0 and no filter
\* over a non-empty store returned nothing
C5_Witness ==
  /\ Searched
  /\ call.query # << >>
  /\ \E i \in DOMAIN call.query : ~IsSpace(call.query[i])
  /\ OnlyShortTokens(call.query)
  /\ call.algorithm = "bm25"
  /\ call.min_similarity = Zero
  /\ ~FilterApplied
  /\ inverted_index # << >>
  /\ ret = << >>

\* C10: for a selector outside {jaccard, cosine, bm25} and a non-empty token
\* sequence, search gives every document the similarity 0.0: every result has
\* similarity 0.0, the result holds every category-matching document when
\* min_similarity <= 0.0 and is empty when min_similarity > 0.0.
C10_UnknownSelectorZero ==
  (Searched /\ call.algorithm \notin {"jaccard", "cosine", "bm25"} /\ Tokens # << >>) =>
    /\ \A i \in DOMAIN ret : ret[i].similarity = Zero
    /\ SimCmp(call.min_similarity, Zero) <= 0 =>
         ReturnedIds = {d \in StoreIds : FilterApplied => MatchesCategory(d)}
    /\ SimCmp(call.min_similarity, Zero) > 0 => ret = << >>

\* A search under an unknown selector returned a document that shares a term
\* with the query, with similarity 0.0
C10_Witness ==
  /\ Searched
  /\ call.algorithm \notin {"jaccard", "cosine", "bm25"}
  /\ \E i \in DOMAIN ret :
       /\ ret[i].similarity = Zero
       /\ Range(Tokens) \cap DOMAIN inverted_index[PositionOf(ret[i].content_id)].tf # {}

(***************************************************************************)
(* Properties of the scorers, checked under SpecScorer.                    *)
(***************************************************************************)
\* C6: calculate_jaccard(A, B) = |set(A) & keys(B)| / |set(A) | keys(B)|, in
\* [0, 1]; exactly 1.0 when set(A) = keys(B) is non-empty, whatever the
\* frequencies and repeated tokens; exactly 0.0 when the sets are disjoint,
\* both empty included.
C6_JaccardFormula ==
  call.op = "calculate_jaccard" =>
    LET A == Range(call.query_words)
        B == DOMAIN call.doc_words_freq
    IN  /\ ret = IF A \cup B = {} THEN Zero
                 ELSE Q(Cardinality(A \cap B), Cardinality(A \cup B))
        /\ SimGe(ret, Zero)
        /\ SimGe(One, ret)
        /\ (A = B /\ A # {}) => ret = One
        /\ A \cap B = {} => ret = Zero

\* calculate_jaccard returned 1.0 for a query with a repeated token and a
\* table over the same terms with a count above 1
C6_Witness ==
  /\ call.op = "calculate_jaccard"
  /\ Len(call.query_words) > Cardinality(Range(call.query_words))
  /\ Range(call.query_words) = DOMAIN call.doc_words_freq
  /\ \E w \in DOMAIN call.doc_words_freq : call.doc_words_freq[w] > 1
  /\ ret = One

\* D's counts are a positive multiple of Q's over the same, non-empty term set
ScalarMultiple(query_freq, doc_words_freq) ==
  /\ DOMAIN query_freq = DOMAIN doc_words_freq
  /\ DOMAIN query_freq # {}
  /\ \A w, v \in DOMAIN query_freq :
       doc_words_freq[w] * query_freq[v] = doc_words_freq[v] * query_freq[w]

\* C7 as stated: for token multisets Q and tables D with counts >= 1,
\* calculate_cosine(Q, D) is in [0, 1], is 1.0 when D is a positive scalar
\* multiple of Q's counts over the same terms, and is exactly 0.0 when Q and
\* D share no term or either is empty.
C7_CosineRange ==
  call.op = "calculate_cosine" =>
    LET query_freq == Counter(call.query_words)
    IN  /\ SimGe(ret, Zero)
        /\ SimGe(One, ret)
        /\ ScalarMultiple(query_freq, call.doc_words_freq) => SimCmp(ret, One) = 0
        /\ DOMAIN query_freq \cap DOMAIN call.doc_words_freq = {} => SimCmp(ret, Zero) = 0

(***************************************************************************)
(* Properties of calculate_bm25, checked under SpecBM25.                   *)
(***************************************************************************)
\* C8: calculate_bm25 returns a mapping whose keys are exactly the store's
\* identifiers; position i of the corpus and of bm25_id_map is the store's
\* i-th document, and its identifier maps to the min-max normalisation of
\* the raw score at position i: a value in [0, 1], exactly 1.0 at the maximum
\* and 0.0 at the minimum when the raw scores differ, 0.0 for every document
\* when they are all equal.
C8_BM25Normalised ==
  call.op = "calculate_bm25" =>
    LET raw == get_scores(bm25_model, call.query_words)
        hi  == Max(Range(raw))
        lo  == Min(Range(raw))
    IN  /\ DOMAIN ret = StoreIds
        /\ Len(raw) = Len(inverted_index)
        /\ \A i \in DOMAIN inverted_index :
             LET v == ret[inverted_index[i].id]
             IN  /\ bm25_model.doc_freqs[i] = DocTokens(inverted_index[i].tf)
                 /\ SimGe(v, Zero)
                 /\ SimGe(One, v)
                 /\ v = IF hi = lo THEN Zero ELSE Q(raw[i] - lo, hi - lo)
                 /\ (hi # lo /\ raw[i] = hi) => v = One
                 /\ (hi # lo /\ raw[i] = lo) => v = Zero
                 /\ hi = lo => v = Zero

\* calculate_bm25 returned 1.0, 0.0 and a value strictly between them over a
\* store whose identifiers are not its positions
C8_Witness ==
  /\ call.op = "calculate_bm25"
  /\ \E i \in DOMAIN inverted_index : inverted_index[i].id # i
  /\ \E d, e, f \in DOMAIN ret :
       /\ ret[d] = One
       /\ ret[e] = Zero
       /\ SimCmp(ret[f], Zero) > 0
       /\ SimCmp(ret[f], One) < 0

(***************************************************************************)
(* Properties of construction, checked under SpecBadStore.                 *)
(***************************************************************************)
HasNonPositiveCount(index) ==
  \E i \in DOMAIN index : \E w \in DOMAIN index[i].tf : index[i].tf[w] <= 0

\* C9 as stated: construction over a malformed store (in particular one with
\* a table that holds a count of 0 or less) fails with a construction error
\* and yields no instance that can be searched.
C9_MalformedStoreRejected ==
  HasNonPositiveCount(inverted_index) => (phase # "ready" /\ call.op # "search")

(***************************************************************************)
(* Properties of the emitted results, checked under SpecMeta.              *)
(***************************************************************************)
\* The literal search puts in a result for a field the metadata lacks
Fallback(field) ==
  IF field = "title" THEN "Unknown Title"
  ELSE IF field = "category"
       THEN <<"U", "n", "k", "n", "o", "w", "n", " ", "C", "a", "t", "e", "g", "o", "r", "y">>
  ELSE IF field = "date" THEN "Unknown Date"
  ELSE ""

\* C11: a document of the term store that the metadata store lacks, or holds
\* with fields missing, is no error: when it passes the filters it is emitted,
\* its content_id is the store identifier, every field the metadata holds is
\* copied unchanged and every missing field is its fallback literal ("Unknown
\* Title", "Unknown Category", "Unknown Date", "" for image_url, url, content).
C11_FallbackLiterals ==
  (Searched /\ Tokens # << >>) =>
    /\ ReturnedIds = QualifyingIds
    /\ \A i \in DOMAIN ret :
         LET doc_id == ret[i].content_id
             held   == IF doc_id \in DOMAIN combined_data
                       THEN DOMAIN combined_data[doc_id] ELSE {}
         IN  /\ doc_id \in StoreIds
             /\ DOMAIN ret[i] = MetaFields \cup {"content_id", "similarity"}
             /\ \A field \in MetaFields :
                  ret[i][field] = IF field \in held THEN combined_data[doc_id][field]
                                  ELSE Fallback(field)

\* A search returned a document the metadata store does not hold, with the
\* three "Unknown ..." literals
C11_Witness ==
  /\ Searched
  /\ \E i \in DOMAIN ret :
       /\ ret[i].content_id \notin DOMAIN combined_data
       /\ ret[i].title = "Unknown Title"
       /\ ret[i].category = Str_UnknownCategory
       /\ ret[i].date = "Unknown Date"

(***************************************************************************)
(* Properties of concurrent searches, checked under SpecConc.              *)
(***************************************************************************)
\* What the call thread t is running returns when it runs alone
AloneResult(t) ==
  search(call[t].query, call[t].algorithm, call[t].target_category, call[t].min_similarity)

\* C12: once construction is over, however the steps of several search calls
\* interleave on the one instance, every call returns the sequence the same
\* call returns when run alone, and no step of a call writes inverted_index,
\* combined_data, the BM25 model or bm25_id_map.
C12_CallsDoNotInterfere ==
  /\ [](\A t \in Threads : call[t].pc = "done" => ret[t] = AloneResult(t))
  /\ [][phase = "ready" =>
          UNCHANGED <<phase, inverted_index, combined_data, bm25_model, bm25_id_map>>]_vars

\* A call returned a non-empty list while a call with another selector,
\* entered by another thread, is inside its loop with a result accumulated
C12_Witness ==
  \E t, u \in Threads :
    /\ t # u
    /\ call[t].pc = "done"
    /\ ret[t] # << >>
    /\ call[u].pc = "loop"
    /\ call[u].i > 1
    /\ call[u].results # << >>
    /\ call[u].algorithm # call[t].algorithm
    /\ call[u].query # call[t].query

=============================================================================
